---- MODULE Spec2Model ----
\* A model of AfterContext (packages/next/src/server/after/after-context.ts):
\* the coordinator behind unstable_after().  One coordinator instance, its
\* paused callback queue, the lifetime-extension hook (waitUntil), the close
\* hook (onClose), the observed work unit stores and the task error reporter.
EXTENDS Integers, Sequences, FiniteSets, TLC

\* ------------------------------------------------------------------ bounds
\* Total number of calls of after() that the environment makes.
MaxCalls == 3

\* ------------------------------------------------------------ environment
\* The work unit stores (SubRequestContexts) that can be ambient at a call.
Stores == {"s1"}
NoStore == "noStore"
\* The phase each work unit store is in while the response is produced.
InitialPhase == [s \in Stores |-> "render"]
\* callerInfo.reactOwnerStack: string | null.  One call in three has one.
ReactOwnerStack(id) == IF id % 3 = 1 THEN "owner" ELSE "null"
\* A call of after() is made either by code outside any after() task or by
\* a running deferred procedure (a positive task id).
External == 0

VARIABLES
  hasWaitUntil,    \* opts.waitUntil is configured
  onTaskError,     \* opts.onTaskError: undefined, or what the hook does when called
  hasWorkStore,    \* workAsyncStorage.getStore() is defined where the drain runs
  nCalls,          \* number of after() calls made so far
  lastCall,        \* what the last after() call was given and how it ended
  tasks,           \* deferred procedures accepted by addCallback, by call id
  eventuals,       \* eventual tasks handed to after(), by call id
  callbackQueue,   \* callbackQueue: procedures waiting to be launched (FIFO)
  isPaused,        \* callbackQueue is paused
  pending,         \* callbackQueue: procedures in flight
  started,         \* procedures in the order the queue launched them
  settled,         \* how each launched procedure's wrapper promise settled
  workUnitStores,  \* this.workUnitStores
  phase,           \* the phase field of every work unit store
  runCallbacksOnClosePromise,
                   \* "undefined" until addCallback creates it, then the position
                   \* of runCallbacksOnClose: "awaitClose" (awaiting the thunk),
                   \* "closed" (thunk invoked, continuation ready), "awaitIdle"
                   \* (queue started, awaiting onIdle), "revalidate" (idle,
                   \* withExecuteRevalidates finishing), "resolved", "rejected"
  onCloseCalls,    \* number of thunks registered with opts.onClose
  waitUntilCalls,  \* what opts.waitUntil was called with, in order
  reports,         \* console.error / onTaskError events, per failed task
  startPhases,     \* history: the phases a procedure found when it was launched
  observedAtDrain  \* history: this.workUnitStores when runCallbacks began

vars == <<hasWaitUntil, onTaskError, hasWorkStore, nCalls, lastCall, tasks,
          eventuals, callbackQueue, isPaused, pending, started, settled,
          workUnitStores, phase, runCallbacksOnClosePromise, onCloseCalls, waitUntilCalls, reports,
          startPhases, observedAtDrain>>

\* The environment's configuration never changes.
config == <<hasWaitUntil, onTaskError, hasWorkStore>>
\* The state the coordinator owns or mutates.
coordinator == <<tasks, callbackQueue, isPaused, pending, started, settled,
                 workUnitStores, phase, runCallbacksOnClosePromise, onCloseCalls, waitUntilCalls,
                 startPhases, observedAtDrain>>

\* ------------------------------------------------------------ constructor
\* A constructor that forgets to pause the queue.
ConstructorPaused_Forgotten == FALSE

\* this.callbackQueue = new PromiseQueue(); this.callbackQueue.pause()
ConstructorPaused == TRUE

EmptyMap == [x \in {} |-> 0]

Init ==
  /\ hasWaitUntil \in BOOLEAN
  /\ onTaskError \in {"undefined", "returns", "throws"}
  /\ hasWorkStore \in BOOLEAN
  /\ nCalls = 0
  /\ lastCall = [kind |-> "none", threw |-> "none"]
  /\ tasks = EmptyMap
  /\ eventuals = EmptyMap
  /\ callbackQueue = <<>>
  /\ isPaused = ConstructorPaused
  /\ pending = {}
  /\ started = <<>>
  /\ settled = EmptyMap
  /\ workUnitStores = {}
  /\ phase = InitialPhase
  /\ runCallbacksOnClosePromise = "undefined"
  /\ onCloseCalls = 0
  /\ waitUntilCalls = <<>>
  /\ reports = EmptyMap
  /\ startPhases = EmptyMap
  /\ observedAtDrain = {}

\* ------------------------------------------------------ ambient contexts
\* afterTaskAsyncStorage.getStore() outside any after() task
NoAfterTaskStore == [undefined |-> TRUE]
\* nestedTaskCallerStacks: undefined
NoNested == [defined |-> FALSE, stacks |-> <<>>]

\* Who can call after(): outside code, or a deferred procedure in flight.
Callers == {External} \cup pending

\* A deferred-task store left over from the procedure launched last.
AmbientAfterTaskStore_Unbound(caller) ==
  IF caller = External THEN NoAfterTaskStore
  ELSE tasks[started[Len(started)]].store

\* afterTaskAsyncStorage.getStore() as seen by the caller: a running procedure
\* runs inside afterTaskAsyncStorage.run(newAfterTaskStore, ...).
AmbientAfterTaskStore(caller) ==
  IF caller = External THEN NoAfterTaskStore ELSE tasks[caller].store

\* workUnitAsyncStorage.getStore() as seen by the caller: bindSnapshot restores
\* the stores that were ambient where the procedure was scheduled.
AmbientWorkUnitStores(caller) ==
  IF caller = External THEN Stores \cup {NoStore}
  ELSE {tasks[caller].workUnitStore}

\* workUnitStore?.phase
PhaseOf(wus, ph) == IF wus = NoStore THEN "undefined" ELSE ph[wus]

\* ---------------------------------------------------------------- after()
\* The shapes of the task argument.
TaskShapes == {"promise", "function", "null"}

\* after() that enqueues a promise like a function.
AfterBranch_PromiseEnqueued(task) ==
  CASE task \in {"promise", "function"} -> "addCallback"
    [] OTHER -> "throw"

\* after() without the typeof check: whatever is not a promise is enqueued.
AfterBranch_NoTypeCheck(task) ==
  CASE task = "promise" -> "waitUntil"
    [] OTHER -> "addCallback"

\* after(): isThenable(task) / typeof task === 'function' / else
AfterBranch(task) ==
  CASE task = "promise" -> "waitUntil"
    [] task = "function" -> "addCallback"
    [] OTHER -> "throw"

\* The check for waitUntil left out.
WaitUntilMissing_Unchecked(w) == FALSE

\* if (!this.waitUntil) errorWaitUntilNotAvailable()
WaitUntilMissing(w) == ~w

\* errorWaitUntilNotAvailable(): the configuration error
ErrorWaitUntilNotAvailable == "waitUntil is not available"
\* the usage error of after()
ErrorArgument == "Argument must be a promise or a function"

\* A nested record that appends the caller stack instead of prepending it.
NewAfterTaskStore_Appending(outer, spawnPhase, callerStack, reactOwnerStack) ==
  IF outer = NoAfterTaskStore
  THEN [rootTaskSpawnPhase |-> spawnPhase,
        rootTaskReactOwnerStack |-> reactOwnerStack,
        rootTaskCallerStack |-> callerStack,
        nestedTaskCallerStacks |-> NoNested]
  ELSE [outer EXCEPT !.nestedTaskCallerStacks =
          [defined |-> TRUE,
           stacks |-> Append(outer.nestedTaskCallerStacks.stacks, callerStack)]]

\* addCallback: the record made for the new task
NewAfterTaskStore(outer, spawnPhase, callerStack, reactOwnerStack) ==
  IF outer = NoAfterTaskStore
  THEN [rootTaskSpawnPhase |-> spawnPhase,
        rootTaskReactOwnerStack |-> reactOwnerStack,
        rootTaskCallerStack |-> callerStack,
        nestedTaskCallerStacks |-> NoNested]
  ELSE [outer EXCEPT !.nestedTaskCallerStacks =
          [defined |-> TRUE,
           stacks |-> <<callerStack>> \o outer.nestedTaskCallerStacks.stacks]]

\* A close-wait task created again once the previous one has settled.
ShouldArm_WhenSettled(promise) == promise \in {"undefined", "resolved"}

\* The close-wait task created on every enqueue.
ShouldArm_EveryTime(promise) == TRUE

\* addCallback: if (!this.runCallbacksOnClosePromise)
ShouldArm(promise) == promise = "undefined"

\* A queue that never launches on add, leaving later items for a next start.
LaunchesOnAdd_Never(paused) == FALSE

\* PromiseQueue with the default (unbounded) concurrency: a procedure added
\* while the queue runs is launched at once, otherwise it waits.
LaunchesOnAdd(paused) == ~paused

\* after(promise, callerInfo)
AfterPromise(caller, task, wus) ==
  /\ nCalls < MaxCalls
  /\ AfterBranch(task) = "waitUntil"
  /\ LET id == nCalls + 1
         ev == [status |-> "pending", attached |-> FALSE, wrapper |-> "none",
                caller |-> caller,
                outer |-> AmbientAfterTaskStore(caller), callerStack |-> id,
                reactOwnerStack |-> ReactOwnerStack(id)]
     IN /\ nCalls' = id
        /\ IF WaitUntilMissing(hasWaitUntil)
           THEN /\ lastCall' = [kind |-> task, threw |-> ErrorWaitUntilNotAvailable]
                /\ eventuals' = eventuals @@ (id :> ev)
                /\ UNCHANGED waitUntilCalls
           ELSE /\ lastCall' = [kind |-> task, threw |-> "none"]
                /\ eventuals' = eventuals @@ (id :> [ev EXCEPT !.attached = TRUE,
                                                            !.wrapper = "pending"])
                /\ waitUntilCalls' = Append(waitUntilCalls, <<"promise", id>>)
  /\ UNCHANGED <<config, tasks, callbackQueue, isPaused, pending, started, settled,
                 workUnitStores, phase, runCallbacksOnClosePromise, onCloseCalls, reports,
                 startPhases, observedAtDrain>>

\* A set that keeps only the context of the latest enqueue.
AddWorkUnitStore_Replacing(set, wus) == IF wus = NoStore THEN {} ELSE {wus}

\* addCallback: if (workUnitStore) this.workUnitStores.add(workUnitStore)
AddWorkUnitStore(set, wus) == IF wus = NoStore THEN set ELSE set \cup {wus}

\* after(fn, callerInfo) -> addCallback(fn, callerInfo)
AfterFunction(caller, task, wus) ==
  /\ nCalls < MaxCalls
  /\ AfterBranch(task) = "addCallback"
  /\ LET id == nCalls + 1
         store == NewAfterTaskStore(AmbientAfterTaskStore(caller),
                                    PhaseOf(wus, phase), id, ReactOwnerStack(id))
         arm == ShouldArm(runCallbacksOnClosePromise)
     IN /\ nCalls' = id
        /\ IF WaitUntilMissing(hasWaitUntil)
           THEN /\ lastCall' = [kind |-> task, threw |-> ErrorWaitUntilNotAvailable]
                /\ UNCHANGED coordinator
           ELSE /\ lastCall' = [kind |-> task, threw |-> "none"]
                /\ workUnitStores' = AddWorkUnitStore(workUnitStores, wus)
                /\ tasks' = tasks @@ (id :>
                     [store |-> store, workUnitStore |-> wus, caller |-> caller,
                      callerStack |-> id, reactOwnerStack |-> ReactOwnerStack(id),
                      phaseAtCall |-> PhaseOf(wus, phase)])
                \* this.callbackQueue.add(wrappedCallback)
                /\ IF LaunchesOnAdd(isPaused)
                   THEN /\ pending' = pending \cup {id}
                        /\ started' = Append(started, id)
                        /\ startPhases' = startPhases @@ (id :> phase)
                        /\ UNCHANGED callbackQueue
                   ELSE /\ callbackQueue' = Append(callbackQueue, id)
                        /\ UNCHANGED <<pending, started, startPhases>>
                \* this should only happen once
                /\ IF arm
                   THEN /\ runCallbacksOnClosePromise' = "awaitClose"
                        /\ onCloseCalls' = onCloseCalls + 1
                        /\ waitUntilCalls' = Append(waitUntilCalls, <<"closeWait", 0>>)
                   ELSE UNCHANGED <<runCallbacksOnClosePromise, onCloseCalls, waitUntilCalls>>
                /\ UNCHANGED <<isPaused, settled, phase, observedAtDrain>>
  /\ UNCHANGED <<config, eventuals, reports>>

\* after(anything else, callerInfo)
AfterMalformed(caller, task, wus) ==
  /\ nCalls < MaxCalls
  /\ AfterBranch(task) = "throw"
  /\ nCalls' = nCalls + 1
  /\ lastCall' = [kind |-> task, threw |-> ErrorArgument]
  /\ UNCHANGED <<config, coordinator, eventuals, reports>>

\* ------------------------------------------------------- reportTaskError
\* What the failing tasks throw: instances of Error (isError() is true).
ThrownIsError == {TRUE}

\* Whether stitchAfterCallstack throws on the error of a call: like the owner
\* stack, fixed per call so that both outcomes occur in one behaviour.
StitchThrows(id) == id % 2 = 0

\* An error value thrown by a task: whether isError() recognises it, and the
\* stack info stitched into it (none until stitchAfterCallstack succeeds).
TaskError(id, isErr) ==
  [of |-> id, isError |-> isErr, stitchedWith |-> NoAfterTaskStore]

\* stitchAfterCallstack(error, stackInfo), when it does not throw
StitchAfterCallstack(error, stackInfo) ==
  [error EXCEPT !.stitchedWith = stackInfo]

ConsoleError(msg, error) == [type |-> "console.error", msg |-> msg, error |-> error]
HookCall(error, threw) == [type |-> "onTaskError", msg |-> threw, error |-> error]

\* A reporter that gives up when stitching fails: it logs that and returns.
ReportTaskError_StitchAborts(taskKind, error, stackInfo, hook, stitchThrows) ==
  LET tryStitch == stackInfo # NoAfterTaskStore /\ error.isError
      reported  == IF tryStitch THEN StitchAfterCallstack(error, stackInfo) ELSE error
      mainLog   == <<ConsoleError(IF taskKind = "promise"
                                  THEN "A promise passed to unstable_after() rejected:"
                                  ELSE "An error occurred in a function passed to unstable_after():",
                                  reported)>>
      hookLog   == IF hook # "undefined"
                   THEN <<HookCall(reported, hook)>>
                        \o (IF hook = "throws"
                            THEN <<ConsoleError("onTaskError threw while handling an error thrown from an unstable_after task", reported)>>
                            ELSE <<>>)
                   ELSE <<>>
  IN IF tryStitch /\ stitchThrows
     THEN [events |-> <<ConsoleError("Could not stitch callstack for after callback", error)>>,
           threw |-> FALSE]
     ELSE [events |-> mainLog \o hookLog, threw |-> FALSE]

\* A reporter that calls the hook without the try/catch around it.
ReportTaskError_HookUnguarded(taskKind, error, stackInfo, hook, stitchThrows) ==
  LET tryStitch == stackInfo # NoAfterTaskStore /\ error.isError
      reported  == IF tryStitch /\ ~stitchThrows
                   THEN StitchAfterCallstack(error, stackInfo) ELSE error
      stitchLog == IF tryStitch /\ stitchThrows
                   THEN <<ConsoleError("Could not stitch callstack for after callback", error)>>
                   ELSE <<>>
      mainLog   == <<ConsoleError(IF taskKind = "promise"
                                  THEN "A promise passed to unstable_after() rejected:"
                                  ELSE "An error occurred in a function passed to unstable_after():",
                                  reported)>>
      hookLog   == IF hook # "undefined" THEN <<HookCall(reported, hook)>> ELSE <<>>
  IN [events |-> stitchLog \o mainLog \o hookLog, threw |-> hook = "throws"]

\* reportTaskError(taskKind, error, stackInfo): the events it emits, in order,
\* and whether an exception leaves it.  stitchThrows is what
\* stitchAfterCallstack does on this call, hook is this.onTaskError.
ReportTaskError(taskKind, error, stackInfo, hook, stitchThrows) ==
  LET tryStitch == stackInfo # NoAfterTaskStore /\ error.isError
      reported  == IF tryStitch /\ ~stitchThrows
                   THEN StitchAfterCallstack(error, stackInfo) ELSE error
      stitchLog == IF tryStitch /\ stitchThrows
                   THEN <<ConsoleError("Could not stitch callstack for after callback", error)>>
                   ELSE <<>>
      mainLog   == <<ConsoleError(IF taskKind = "promise"
                                  THEN "A promise passed to unstable_after() rejected:"
                                  ELSE "An error occurred in a function passed to unstable_after():",
                                  reported)>>
      hookLog   == IF hook # "undefined"
                   THEN <<HookCall(reported, hook)>>
                        \o (IF hook = "throws"
                            THEN <<ConsoleError("onTaskError threw while handling an error thrown from an unstable_after task", reported)>>
                            ELSE <<>>)
                   ELSE <<>>
  IN [events |-> stitchLog \o mainLog \o hookLog, threw |-> FALSE]

\* A wrapper without the try/catch: the failure rejects the wrapper unreported.
UnwrappedCallback_NoCatch(bodyThrew, error, store, hook, stitchThrows) ==
  [events |-> <<>>, wrapper |-> IF bodyThrew THEN "rejected" ELSE "fulfilled"]

\* unwrappedCallback: try { await callback() } catch { reportTaskError(...) }
\* How the wrapper's promise settles and what it reports.
UnwrappedCallback(bodyThrew, error, store, hook, stitchThrows) ==
  IF bodyThrew
  THEN LET r == ReportTaskError("function", error, store, hook, stitchThrows)
       IN [events |-> r.events,
           wrapper |-> IF r.threw THEN "rejected" ELSE "fulfilled"]
  ELSE [events |-> <<>>, wrapper |-> "fulfilled"]

\* after(promise): the stack info built in task.catch
PromiseStackInfo(outer, callerStack, reactOwnerStack) ==
  IF outer = NoAfterTaskStore
  THEN [rootTaskReactOwnerStack |-> reactOwnerStack,
        rootTaskCallerStack |-> callerStack,
        nestedTaskCallerStacks |-> NoNested]
  ELSE [outer EXCEPT !.nestedTaskCallerStacks =
          [defined |-> TRUE,
           stacks |-> <<callerStack>> \o outer.nestedTaskCallerStacks.stacks]]

\* ------------------------------------------------- the callback queue runs
\* PromiseQueue: when a procedure settles and nothing is waiting or in
\* flight, the queue is idle and onIdle() resolves.
QueueIdle(q, inFlight) == Len(q) = 0 /\ inFlight = {}

\* A launched procedure settles: p-queue's _next() after the wrapper settled.
Settle(t, bodyThrew, w) ==
  /\ pending' = pending \ {t}
  /\ settled' = settled @@ (t :> [body |-> IF bodyThrew THEN "threw" ELSE "returned",
                                  wrapper |-> w.wrapper])
  /\ reports' = IF w.events = <<>> THEN reports ELSE reports @@ (t :> w.events)
  /\ runCallbacksOnClosePromise' =
       IF /\ runCallbacksOnClosePromise = "awaitIdle"
          /\ QueueIdle(callbackQueue, pending \ {t})
       THEN "revalidate" ELSE runCallbacksOnClosePromise
  /\ UNCHANGED <<config, nCalls, lastCall, tasks, eventuals, callbackQueue, isPaused,
                 started, workUnitStores, phase, onCloseCalls, waitUntilCalls,
                 startPhases, observedAtDrain>>

\* A deferred procedure returns (or its promise fulfils).
TaskReturns(t) ==
  /\ t \in pending
  /\ Settle(t, FALSE, UnwrappedCallback(FALSE, TaskError(t, TRUE), tasks[t].store,
                                        onTaskError, FALSE))

\* A deferred procedure throws (or its promise rejects).
TaskThrows(t, isErr, stitchThrows) ==
  /\ t \in pending
  /\ Settle(t, TRUE, UnwrappedCallback(TRUE, TaskError(t, isErr), tasks[t].store,
                                       onTaskError, stitchThrows))

\* ------------------------------------------------------- close and drain
\* The host invokes the thunk given to onClose: the awaited promise resolves.
CloseFires ==
  /\ runCallbacksOnClosePromise = "awaitClose"
  /\ runCallbacksOnClosePromise' = "closed"
  /\ UNCHANGED <<config, nCalls, lastCall, tasks, eventuals, callbackQueue, isPaused,
                 pending, started, settled, workUnitStores, phase, onCloseCalls,
                 waitUntilCalls, reports, startPhases, observedAtDrain>>

\* An early return that is always taken.
DrainEarlyReturn_Always(size) == size >= 0

\* runCallbacks: if (this.callbackQueue.size === 0) return
DrainEarlyReturn(size) == size = 0

\* A drain that leaves the phases alone.
FlipPhases_Skipped(ph, observed) == ph

\* runCallbacks: for (const workUnitStore of this.workUnitStores) phase = 'after'
FlipPhases(ph, observed) ==
  [s \in DOMAIN ph |-> IF s \in observed THEN "after" ELSE ph[s]]

\* A drain that does not look for the work store.
WorkStoreMissing_Unchecked(workStore) == FALSE

\* runCallbacks: const workStore = workAsyncStorage.getStore(); if (!workStore)
WorkStoreMissing(workStore) == ~workStore

Range(q) == {q[i] : i \in 1..Len(q)}

\* runCallbacksOnClose resumes after the close promise and calls runCallbacks,
\* which runs up to callbackQueue.onIdle() without suspending.
RunCallbacks ==
  /\ runCallbacksOnClosePromise = "closed"
  /\ IF DrainEarlyReturn(Len(callbackQueue))
     THEN /\ runCallbacksOnClosePromise' = "resolved"
          /\ UNCHANGED <<phase, observedAtDrain, isPaused, pending, started,
                         callbackQueue, startPhases>>
     ELSE /\ phase' = FlipPhases(phase, workUnitStores)
          /\ observedAtDrain' = workUnitStores
          /\ IF WorkStoreMissing(hasWorkStore)
             THEN \* throw new InvariantError('Missing workStore ...')
                  /\ runCallbacksOnClosePromise' = "rejected"
                  /\ UNCHANGED <<isPaused, pending, started, callbackQueue, startPhases>>
             ELSE \* this.callbackQueue.start(); return this.callbackQueue.onIdle()
                  /\ isPaused' = FALSE
                  /\ pending' = pending \cup Range(callbackQueue)
                  /\ started' = started \o callbackQueue
                  /\ startPhases' = startPhases @@ [t \in Range(callbackQueue) |-> phase']
                  /\ callbackQueue' = <<>>
                  /\ runCallbacksOnClosePromise' = "awaitIdle"
  /\ UNCHANGED <<config, nCalls, lastCall, tasks, eventuals, settled,
                 workUnitStores, onCloseCalls, waitUntilCalls, reports>>

\* withExecuteRevalidates: after onIdle() resolved, the revalidations are
\* executed and the promise of runCallbacks (and runCallbacksOnClose) resolves.
DrainResolves ==
  /\ runCallbacksOnClosePromise = "revalidate"
  /\ runCallbacksOnClosePromise' = "resolved"
  /\ UNCHANGED <<config, nCalls, lastCall, tasks, eventuals, callbackQueue, isPaused,
                 pending, started, settled, workUnitStores, phase, onCloseCalls,
                 waitUntilCalls, reports, startPhases, observedAtDrain>>

\* ------------------------------------------------------ eventual tasks
\* A handler that reports the rejection and throws it again.
CatchHandler_Rethrows(ev, error, hook, stitchThrows) ==
  [events |-> ReportTaskError("promise", error,
                PromiseStackInfo(ev.outer, ev.callerStack, ev.reactOwnerStack),
                hook, stitchThrows).events,
   wrapper |-> "rejected"]

\* after(promise): task.catch((error) => { ...; this.reportTaskError(...) })
\* What the handler reports and how the promise given to waitUntil settles.
CatchHandler(ev, error, hook, stitchThrows) ==
  LET r == ReportTaskError("promise", error,
                           PromiseStackInfo(ev.outer, ev.callerStack, ev.reactOwnerStack),
                           hook, stitchThrows)
  IN [events |-> r.events, wrapper |-> IF r.threw THEN "rejected" ELSE "fulfilled"]

\* An eventual task fulfils: task.catch(...) fulfils too, nothing is reported.
EventualFulfils(e) ==
  /\ e \in DOMAIN eventuals
  /\ eventuals[e].status = "pending"
  /\ eventuals' = [eventuals EXCEPT ![e].status = "fulfilled",
                     ![e].wrapper = IF eventuals[e].attached THEN "fulfilled" ELSE "none"]
  /\ UNCHANGED <<config, nCalls, lastCall, coordinator, reports>>

\* An eventual task rejects: the handler attached by after() reports it.
EventualRejects(e, isErr, stitchThrows) ==
  /\ e \in DOMAIN eventuals
  /\ eventuals[e].status = "pending"
  /\ LET h == CatchHandler(eventuals[e], TaskError(e, isErr), onTaskError, stitchThrows)
     IN IF eventuals[e].attached
        THEN /\ eventuals' = [eventuals EXCEPT ![e].status = "rejected",
                                               ![e].wrapper = h.wrapper]
             /\ reports' = reports @@ (e :> h.events)
        ELSE /\ eventuals' = [eventuals EXCEPT ![e].status = "rejected"]
             /\ UNCHANGED reports
  /\ UNCHANGED <<config, nCalls, lastCall, coordinator>>

\* ------------------------------------------------------------------ Next
\* Some code calls after(task, callerInfo).
CallAfter ==
  \E c \in Callers, task \in TaskShapes :
    \E wus \in AmbientWorkUnitStores(c) :
      \/ AfterPromise(c, task, wus)
      \/ AfterFunction(c, task, wus)
      \/ AfterMalformed(c, task, wus)

\* A procedure in flight settles, one way or the other.
TaskSettles(t) ==
  \/ TaskReturns(t)
  \/ \E isErr \in ThrownIsError : TaskThrows(t, isErr, StitchThrows(t))

\* An eventual task settles, one way or the other.
EventualSettles(e) ==
  \/ EventualFulfils(e)
  \/ \E isErr \in ThrownIsError : EventualRejects(e, isErr, StitchThrows(e))

Next ==
  \/ CallAfter
  \/ CloseFires
  \/ RunCallbacks
  \/ DrainResolves
  \/ \E t \in pending : TaskSettles(t)
  \/ \E e \in DOMAIN eventuals : EventualSettles(e)

Spec == Init /\ [][Next]_vars

\* ------------------------------------------------------------- liveness
\* The number of after() calls in the behaviours checked for liveness.
MaxLiveCalls == 2

LiveNext ==
  \/ nCalls < MaxLiveCalls /\ CallAfter
  \/ CloseFires
  \/ RunCallbacks
  \/ DrainResolves
  \/ \E t \in pending : TaskSettles(t)
  \/ \E e \in DOMAIN eventuals : EventualSettles(e)

\* The continuations of runCallbacksOnClose run once their promise resolved
\* (the event loop runs every ready continuation), and every deferred
\* procedure's own body eventually settles.  Nothing makes the host close the
\* response, some code call after() or an eventual task settle.
LiveSpec ==
  /\ Init /\ [][LiveNext]_vars
  /\ WF_vars(RunCallbacks)
  /\ WF_vars(DrainResolves)
  /\ \A t \in 1..MaxLiveCalls : WF_vars(TaskSettles(t))

\* =================================================================== claims
\* The close notification has fired: the thunk given to onClose was invoked.
CloseFired == runCallbacksOnClosePromise \notin {"undefined", "awaitClose"}

\* The number of events of reports[id] that satisfy a test.
MainLogs(id) ==
  Cardinality({i \in 1..Len(reports[id]) :
    /\ reports[id][i].type = "console.error"
    /\ reports[id][i].msg \in {"A promise passed to unstable_after() rejected:",
                               "An error occurred in a function passed to unstable_after():"}})
FunctionLogs(id) ==
  Cardinality({i \in 1..Len(reports[id]) :
    /\ reports[id][i].type = "console.error"
    /\ reports[id][i].msg = "An error occurred in a function passed to unstable_after():"})
HookCalls(id) ==
  Cardinality({i \in 1..Len(reports[id]) : reports[id][i].type = "onTaskError"})
HookFailureLogs(id) ==
  Cardinality({i \in 1..Len(reports[id]) :
    /\ reports[id][i].type = "console.error"
    /\ reports[id][i].msg = "onTaskError threw while handling an error thrown from an unstable_after task"})
CloseWaitCalls ==
  Cardinality({i \in 1..Len(waitUntilCalls) : waitUntilCalls[i][1] = "closeWait"})

\* C1: no deferred procedure has been launched (is in flight, has been
\* started or has settled) in a state where the close notification has not
\* fired, and the queue stays paused until then.
C1_NoStartBeforeClose ==
  ~CloseFired => /\ pending = {}
                 /\ started = <<>>
                 /\ DOMAIN settled = {}
                 /\ isPaused
\* C1 witness: two procedures were scheduled before the close notification
\* and both have been launched after it.
C1_Witness ==
  /\ CloseFired
  /\ Len(started) >= 2
  /\ \A i \in 1..Len(started) : tasks[started[i]].caller = External

\* C2: whenever the drain promise resolves, no deferred procedure is queued
\* or in flight.
C2_ResolvesOnlyWhenIdle ==
  [][(runCallbacksOnClosePromise # "resolved" /\ runCallbacksOnClosePromise' = "resolved")
       => (Len(callbackQueue') = 0 /\ pending' = {})]_vars

\* C3: once the close notification has fired and the work store exists, every
\* procedure that is queued or in flight (queued at close time or pushed by a
\* running procedure) eventually settles, and the drain promise eventually
\* resolves.
C3_DrainCompletes ==
  /\ (runCallbacksOnClosePromise = "closed" /\ hasWorkStore) ~> (runCallbacksOnClosePromise = "resolved")
  /\ \A t \in 1..MaxLiveCalls :
       (CloseFired /\ hasWorkStore /\ (t \in Range(callbackQueue) \/ t \in pending))
         ~> (t \in DOMAIN settled /\ t \in Range(started))
\* C3 witness: a procedure queued at close time and one it pushed while
\* running have both settled, and the drain has resolved.
C3_Witness ==
  /\ runCallbacksOnClosePromise = "resolved"
  /\ hasWorkStore
  /\ \E t \in DOMAIN settled : tasks[t].caller = External
  /\ \E t \in DOMAIN settled : tasks[t].caller # External

\* C4: every procedure that was launched found every work unit store that was
\* observed when runCallbacks began already in the phase 'after'.
C4_PhaseFlippedBeforeStart ==
  \A t \in DOMAIN startPhases :
    \A s \in observedAtDrain : startPhases[t][s] = "after"
\* C4 witness: every store was observed before the drain, none of them was in
\* the phase 'after' while the response was produced, and a procedure runs.
C4_Witness ==
  /\ observedAtDrain = Stores
  /\ \A s \in Stores : InitialPhase[s] # "after"
  /\ pending # {}

\* C5: a procedure that throws leaves its wrapper fulfilled, is reported
\* exactly once with the kind 'function' (a procedure that returns is never
\* reported), does not make the drain reject, and once every launched
\* procedure has settled the queue has reached idle.
C5_FailureIsolated ==
  /\ \A t \in DOMAIN settled :
       /\ settled[t].wrapper = "fulfilled"
       /\ IF settled[t].body = "threw"
          THEN t \in DOMAIN reports /\ MainLogs(t) = 1 /\ FunctionLogs(t) = 1
          ELSE t \notin DOMAIN reports
  /\ Cardinality({t \in DOMAIN settled : settled[t].body = "threw"})
       = Cardinality(DOMAIN reports \cap DOMAIN tasks)
  /\ (started # <<>>) => runCallbacksOnClosePromise # "rejected"
  /\ (started # <<>> /\ pending = {}) => runCallbacksOnClosePromise \in {"revalidate", "resolved"}
\* C5 witness: three procedures queued before the close, launched together,
\* all settled, some threw and some returned, and the drain resolved.
C5_Witness ==
  /\ Cardinality(DOMAIN settled) = 3
  /\ \A t \in DOMAIN tasks : tasks[t].caller = External
  /\ \E a, b \in DOMAIN settled :
       settled[a].body = "threw" /\ settled[b].body = "returned" /\ a < b
  /\ runCallbacksOnClosePromise = "resolved"

\* C6: without waitUntil, a call of after() with a promise or a function
\* throws the configuration error and changes nothing the coordinator owns
\* (queue, observed stores, close-wait promise, onClose, waitUntil calls);
\* no handler is attached to the promise.
C6_NoWaitUntilThrows ==
  [][(~hasWaitUntil /\ nCalls' # nCalls /\ lastCall'.kind \in {"promise", "function"})
       => /\ lastCall'.threw = ErrorWaitUntilNotAvailable
          /\ UNCHANGED coordinator
          /\ callbackQueue' = <<>> /\ workUnitStores' = {} /\ runCallbacksOnClosePromise' = "undefined"
          /\ onCloseCalls' = 0 /\ waitUntilCalls' = <<>>
          /\ \A e \in DOMAIN eventuals' : ~eventuals'[e].attached
          /\ reports' = reports]_vars
\* C6 witness: without waitUntil, both a promise and a function were given
\* to after(); the last call threw the configuration error.
C6_Witness ==
  /\ ~hasWaitUntil
  /\ lastCall.kind = "function"
  /\ lastCall.threw = ErrorWaitUntilNotAvailable
  /\ DOMAIN eventuals # {}

\* C7: a call of after() with a task that is neither a promise nor a function
\* throws the usage error and changes nothing: no push, no start, no eventual
\* accepted, whatever the configuration and the coordinator's state.
C7_MalformedThrows ==
  [][(nCalls' # nCalls /\ lastCall'.kind \notin {"promise", "function"})
       => /\ lastCall'.threw = ErrorArgument
          /\ UNCHANGED <<coordinator, eventuals, reports>>]_vars
\* C7 witness: a malformed task was given to after() while the queue drains.
C7_Witness ==
  /\ lastCall.threw = ErrorArgument
  /\ runCallbacksOnClosePromise = "awaitIdle"
  /\ pending # {}

\* C8: onClose is given a thunk, and waitUntil the close-wait promise, exactly
\* once if any procedure was ever enqueued and never otherwise.
C8_ArmedOnce ==
  /\ onCloseCalls = (IF DOMAIN tasks = {} THEN 0 ELSE 1)
  /\ CloseWaitCalls = onCloseCalls
  /\ (runCallbacksOnClosePromise = "undefined") = (DOMAIN tasks = {})
\* C8 witness: procedures were enqueued before the close, from a running
\* procedure, and after the drain resolved.
C8_Witness ==
  /\ runCallbacksOnClosePromise = "resolved"
  /\ Cardinality(DOMAIN tasks) = 3
  /\ \E t \in DOMAIN tasks : tasks[t].caller # External
  /\ \E t \in pending : tasks[t].caller = External
  /\ onCloseCalls = 1

\* The nesting depth of a task and the outermost task it descends from.
RECURSIVE Depth(_)
Depth(t) == IF tasks[t].caller = External THEN 0 ELSE 1 + Depth(tasks[t].caller)
RECURSIVE RootOf(_)
RootOf(t) == IF tasks[t].caller = External THEN t ELSE RootOf(tasks[t].caller)
\* The caller stacks from a task up to, not including, its root.
RECURSIVE CallerChain(_)
CallerChain(t) ==
  IF tasks[t].caller = External THEN <<>>
  ELSE <<tasks[t].callerStack>> \o CallerChain(tasks[t].caller)

\* C9: the record of a task at depth d > 0 has a nested sequence of length d
\* that starts with the task's own caller stack and goes outwards; a root
\* task has no nested sequence; the root fields of every task are those
\* recorded when its outermost task was scheduled.
C9_CallerChain ==
  \A t \in DOMAIN tasks :
    LET st == tasks[t].store
        r  == RootOf(t)
    IN /\ st.rootTaskSpawnPhase = tasks[r].phaseAtCall
       /\ st.rootTaskCallerStack = tasks[r].callerStack
       /\ st.rootTaskReactOwnerStack = tasks[r].reactOwnerStack
       /\ IF Depth(t) = 0
          THEN st.nestedTaskCallerStacks = NoNested
          ELSE /\ st.nestedTaskCallerStacks.defined
               /\ Len(st.nestedTaskCallerStacks.stacks) = Depth(t)
               /\ st.nestedTaskCallerStacks.stacks[1] = tasks[t].callerStack
               /\ st.nestedTaskCallerStacks.stacks = CallerChain(t)
\* C9 witness: a task at depth 2 scheduled when its store was already in the
\* phase 'after', whose root was scheduled in another phase.
C9_Witness ==
  \E t \in DOMAIN tasks :
    /\ Depth(t) = 2
    /\ tasks[t].phaseAtCall = "after"
    /\ tasks[t].store.rootTaskSpawnPhase \in {"render", "action"}
    /\ tasks[t].reactOwnerStack # tasks[t].store.rootTaskReactOwnerStack

\* C10: when onTaskError throws, every failure (of a procedure or of an
\* eventual task) still has exactly one main log and one hook call, the hook's
\* failure is logged once, and nothing propagates: the wrapper of the
\* procedure and the promise given to waitUntil are fulfilled and the drain
\* does not reject.
C10_HookFailureContained ==
  onTaskError = "throws" =>
    /\ \A id \in DOMAIN reports :
         /\ MainLogs(id) = 1
         /\ HookCalls(id) = 1
         /\ HookFailureLogs(id) = 1
         /\ reports[id][Len(reports[id])].type = "console.error"
    /\ \A t \in DOMAIN settled :
         /\ settled[t].wrapper = "fulfilled"
         /\ (settled[t].body = "threw") = (t \in DOMAIN reports)
    /\ \A e \in DOMAIN eventuals : eventuals[e].wrapper # "rejected"
    /\ (started # <<>>) => runCallbacksOnClosePromise # "rejected"
\* C10 witness: the hook throws, a procedure threw and was reported, a
\* procedure launched with it returned, and the drain resolved.
C10_Witness ==
  /\ onTaskError = "throws"
  /\ \E t \in DOMAIN settled : settled[t].body = "threw" /\ HookFailureLogs(t) = 1
  /\ \E t \in DOMAIN settled : settled[t].body = "returned"
  /\ runCallbacksOnClosePromise = "resolved"

StitchFailureLogs(id) ==
  Cardinality({i \in 1..Len(reports[id]) :
    /\ reports[id][i].type = "console.error"
    /\ reports[id][i].msg = "Could not stitch callstack for after callback"})
\* The events of reports[id] that carry the reported error: the main log and
\* the call of the hook.
ReportingEvents(id) ==
  {i \in 1..Len(reports[id]) :
     \/ reports[id][i].type = "onTaskError"
     \/ reports[id][i].msg \in {"A promise passed to unstable_after() rejected:",
                                "An error occurred in a function passed to unstable_after():"}}
\* The stack info a failure of task or eventual task id is reported with.
ExpectedStackInfo(id) ==
  IF id \in DOMAIN tasks THEN tasks[id].store
  ELSE LET c == eventuals[id].caller
       IN IF c = External
          THEN [rootTaskReactOwnerStack |-> ReactOwnerStack(id),
                rootTaskCallerStack |-> id,
                nestedTaskCallerStacks |-> NoNested]
          ELSE [rootTaskSpawnPhase |-> tasks[RootOf(c)].phaseAtCall,
                rootTaskReactOwnerStack |-> tasks[RootOf(c)].reactOwnerStack,
                rootTaskCallerStack |-> tasks[RootOf(c)].callerStack,
                nestedTaskCallerStacks |->
                  [defined |-> TRUE, stacks |-> <<id>> \o CallerChain(c)]]

PromiseLogs(id) ==
  Cardinality({i \in 1..Len(reports[id]) :
    /\ reports[id][i].type = "console.error"
    /\ reports[id][i].msg = "A promise passed to unstable_after() rejected:"})

\* C12: with waitUntil configured, after(promise) returns normally and the
\* promise it gives to waitUntil never rejects.  A rejected eventual task is
\* reported exactly once, with the kind 'promise' and, when stitched, with a
\* record that is root if it was scheduled outside every deferred task and
\* the enclosing task's record with the caller stack prepended otherwise; an
\* eventual task that has not rejected is not reported.
C12_EventualFailureReported ==
  /\ (hasWaitUntil /\ lastCall.kind = "promise") => lastCall.threw = "none"
  /\ \A e \in DOMAIN eventuals :
       eventuals[e].attached =>
         /\ eventuals[e].wrapper # "rejected"
         /\ (eventuals[e].status = "rejected") = (e \in DOMAIN reports)
         /\ eventuals[e].status = "rejected" => eventuals[e].wrapper = "fulfilled"
         /\ e \in DOMAIN reports =>
              /\ MainLogs(e) = 1
              /\ PromiseLogs(e) = 1
              /\ \A i \in ReportingEvents(e) :
                   \/ reports[e][i].error.stitchedWith = NoAfterTaskStore
                   \/ LET info == reports[e][i].error.stitchedWith
                      IN /\ info.rootTaskCallerStack =
                              (IF eventuals[e].caller = External THEN e
                               ELSE tasks[RootOf(eventuals[e].caller)].callerStack)
                         /\ info.nestedTaskCallerStacks =
                              (IF eventuals[e].caller = External THEN NoNested
                               ELSE [defined |-> TRUE,
                                     stacks |-> <<e>> \o CallerChain(eventuals[e].caller)])
\* C12 witness: an eventual task scheduled by a running nested procedure has
\* rejected and was reported with a stitched, nested record; another one
\* scheduled outside has fulfilled unreported.
C12_Witness ==
  \E e \in DOMAIN reports \cap DOMAIN eventuals :
    /\ eventuals[e].caller # External
    /\ Depth(eventuals[e].caller) = 1
    /\ eventuals[e].wrapper = "fulfilled"
    /\ StitchFailureLogs(e) = 0
    /\ Len(reports[e][1].error.stitchedWith.nestedTaskCallerStacks.stacks) = 2

\* The coordinator state of the specification, read off the drain promise.
CoordinatorState(promise) ==
  CASE promise = "undefined" -> "Collecting"
    [] promise \in {"awaitClose", "closed"} -> "Armed"
    [] promise = "awaitIdle" -> "Draining"
    [] promise \in {"revalidate", "resolved"} -> "Idle"
    [] OTHER -> "Failed"

CoordinatorOrder ==
  {<<"Collecting", "Armed">>, <<"Armed", "Draining">>, <<"Draining", "Idle">>,
   <<"Armed", "Failed">>}

\* C13: the coordinator only moves Collecting -> Armed -> Draining -> Idle
\* (or fails out of Armed); it enters Draining only from the fired close
\* notification, with the queue still paused and nothing started, by flipping
\* the phases and starting the queue, which is never paused again; a procedure
\* scheduled while draining is launched into the same drain, which is not
\* armed or started a second time.
C13_DrainsOnce ==
  [][LET s == CoordinatorState(runCallbacksOnClosePromise)
         t == CoordinatorState(runCallbacksOnClosePromise')
     IN /\ s # t => <<s, t>> \in CoordinatorOrder
        /\ (s # "Draining" /\ t = "Draining") =>
             /\ runCallbacksOnClosePromise = "closed"
             /\ isPaused /\ ~isPaused'
             /\ started = <<>> /\ started' = callbackQueue
             /\ phase' = FlipPhases(phase, workUnitStores)
        /\ (isPaused /\ ~isPaused') => t = "Draining"
        /\ ~isPaused => ~isPaused'
        /\ (s = "Draining" /\ tasks' # tasks) =>
             /\ t = "Draining"
             /\ onCloseCalls' = onCloseCalls
             /\ waitUntilCalls' = waitUntilCalls
             /\ phase' = phase
             /\ pending' = pending \cup (DOMAIN tasks' \ DOMAIN tasks)
             /\ started' = started \o <<nCalls'>>]_vars
\* C13 witness: the drain is awaiting idleness with a procedure in flight that
\* was scheduled by an already finished procedure of the same drain.
C13_Witness ==
  /\ runCallbacksOnClosePromise = "awaitIdle"
  /\ onCloseCalls = 1
  /\ \E t \in pending :
       /\ tasks[t].caller # External
       /\ tasks[t].caller \in DOMAIN settled

\* TRUE iff the sequence of call ids is in submission order.
InSubmissionOrder(q) == \A i, j \in 1..Len(q) : i < j => q[i] < q[j]

\* C14: starting the queue launches every queued procedure, in submission
\* order and whatever is in flight; once started nothing waits in the queue,
\* and a procedure added afterwards is launched in the same step, also while
\* earlier procedures have not completed.
C14_LaunchOrder ==
  [][/\ InSubmissionOrder(callbackQueue') /\ InSubmissionOrder(started')
     /\ ~isPaused' => (callbackQueue' = <<>> /\ Range(started') = DOMAIN tasks')
     /\ (isPaused /\ ~isPaused') =>
          /\ started' = started \o callbackQueue
          /\ pending' = pending \cup Range(callbackQueue)
     /\ (~isPaused /\ tasks' # tasks) =>
          /\ started' = Append(started, nCalls')
          /\ pending' = pending \cup {nCalls'}]_vars
\* C14 witness: the started queue has launched three procedures in order, the
\* last of them added after the start, while the first is still in flight.
C14_Witness ==
  /\ ~isPaused
  /\ started = <<1, 2, 3>>
  /\ tasks[3].caller # External
  /\ tasks[2].caller = External
  /\ 1 \in pending /\ 3 \in pending

C16_ObservedOnlyGrows ==
  [][/\ workUnitStores \subseteq workUnitStores'
     /\ workUnitStores' # workUnitStores =>
          /\ DOMAIN tasks' = DOMAIN tasks \cup {nCalls'}
          /\ nCalls' \notin DOMAIN tasks
          /\ tasks'[nCalls'].caller = External
          /\ workUnitStores' = workUnitStores \cup {tasks'[nCalls'].workUnitStore}
     /\ \A t \in DOMAIN tasks' \ DOMAIN tasks :
          /\ tasks'[t].workUnitStore # NoStore => tasks'[t].workUnitStore \in workUnitStores'
          /\ tasks'[t].workUnitStore \in workUnitStores \cup {NoStore}
               => workUnitStores' = workUnitStores
          /\ tasks'[t].caller # External => workUnitStores' = workUnitStores
     /\ tasks' = tasks => workUnitStores' = workUnitStores
     /\ phase' # phase =>
          /\ workUnitStores' = workUnitStores
          /\ phase' = FlipPhases(phase, workUnitStores)]_vars
\* C16 witness: the same context was observed by two outside calls and by a
\* call from inside a running procedure, after the phase flip read the set.
C16_Witness ==
  /\ workUnitStores = {"s1"}
  /\ phase["s1"] = "after"
  /\ \E a, b, c \in DOMAIN tasks :
       /\ a # b
       /\ tasks[a].caller = External /\ tasks[b].caller = External
       /\ tasks[a].workUnitStore = "s1" /\ tasks[b].workUnitStore = "s1"
       /\ tasks[c].caller = a

\* C17: without a work store the drain of a non-empty queue fails: the queue
\* stays paused with everything still queued, no procedure is launched or
\* settled, nothing about a procedure is reported or given to onTaskError,
\* and the close-wait promise given to waitUntil is rejected, never resolved;
\* with a work store it is never rejected.
C17_MissingWorkStoreFatal ==
  /\ ~hasWorkStore =>
       /\ isPaused
       /\ started = <<>> /\ pending = {} /\ DOMAIN settled = {}
       /\ Range(callbackQueue) = DOMAIN tasks
       /\ DOMAIN reports \subseteq DOMAIN eventuals
       /\ runCallbacksOnClosePromise \in {"undefined", "awaitClose", "closed", "rejected"}
  /\ runCallbacksOnClosePromise = "rejected" =>
       /\ ~hasWorkStore
       /\ callbackQueue # <<>>
       /\ CloseWaitCalls = 1
\* C17 witness: the drain has failed with two procedures queued and an
\* onTaskError hook configured.
C17_Witness ==
  /\ ~hasWorkStore
  /\ runCallbacksOnClosePromise = "rejected"
  /\ Len(callbackQueue) >= 2
  /\ onTaskError # "undefined"

\* C18: a call that schedules an eventual task leaves the queue, the
\* procedures, the observed contexts, the phases, the close-wait task and the
\* onClose registration as they were and hands waitUntil nothing but the
\* derived promise; the settling of an eventual task does not move the drain;
\* the drain leaves the idle wait exactly when no procedure is in flight,
\* whatever eventual tasks are pending; and while no procedure was ever
\* scheduled, onClose is not registered and the queue stays paused.
C18_EventualLeavesQueueAlone ==
  [][/\ (nCalls' # nCalls /\ lastCall'.kind = "promise") =>
          /\ UNCHANGED <<tasks, callbackQueue, isPaused, pending, started, settled,
                         workUnitStores, phase, runCallbacksOnClosePromise,
                         onCloseCalls>>
          /\ \/ waitUntilCalls' = waitUntilCalls
             \/ waitUntilCalls' = Append(waitUntilCalls, <<"promise", nCalls'>>)
     /\ eventuals' # eventuals =>
          UNCHANGED <<tasks, callbackQueue, isPaused, pending, started, settled,
                      workUnitStores, phase, runCallbacksOnClosePromise, onCloseCalls>>
     /\ (runCallbacksOnClosePromise = "awaitIdle"
           /\ runCallbacksOnClosePromise' # "awaitIdle") =>
          /\ pending # {} /\ pending' = {}
          /\ runCallbacksOnClosePromise' = "revalidate"
     /\ (runCallbacksOnClosePromise' = "awaitIdle") => pending' # {}
     /\ DOMAIN tasks' = {} =>
          /\ onCloseCalls' = 0
          /\ CloseWaitCalls' = 0
          /\ isPaused'
          /\ runCallbacksOnClosePromise' = "undefined"]_vars
\* C18 witness: the drain has resolved while an eventual task scheduled
\* before the close notification is still pending.
C18_Witness ==
  /\ runCallbacksOnClosePromise = "resolved"
  /\ \E e \in DOMAIN eventuals :
       /\ eventuals[e].attached
       /\ eventuals[e].status = "pending"
       /\ \E t \in DOMAIN tasks : e < t

\* C19: whenever a deferred procedure is queued or in flight, the drain
\* promise given to waitUntil has not settled.  (Stated for a present work
\* store: without one the drain fails and no procedure ever runs.)
C19_LifetimeCovered ==
  (hasWorkStore /\ (callbackQueue # <<>> \/ pending # {})) =>
     /\ CloseWaitCalls = 1
     /\ runCallbacksOnClosePromise \notin {"resolved", "rejected"}

\* C20: every deferred procedure that was scheduled under a sub-request
\* context was launched with that context in phase 'after'.
C20_StartsInAfterPhase ==
  \A t \in DOMAIN startPhases :
    tasks[t].workUnitStore # NoStore =>
      startPhases[t][tasks[t].workUnitStore] = "after"

====
